---- MODULE Spec2Model ----
(***************************************************************************)
(* GameBoy emulator: the CPU decode/execute engine (src/src/cpu.rs), its   *)
(* memory (src/src/memory.rs), the start-up in main (src/src/main.rs) and  *)
(* the run loop that paces instructions against FREQUENCY, and the tile    *)
(* decoder of the GPU (src/src/gpu.rs).                                    *)
(*                                                                         *)
(* Memory is the 65,536-byte array of Memory::new.  It is held sparsely:   *)
(* a function from the addresses whose byte is non-zero to that byte; an   *)
(* address outside the domain holds 0.  Rd and Wr keep that form.          *)
(*                                                                         *)
(* Rust's integer overflow depends on the build: with overflow checks (a   *)
(* debug build) the operation panics, without them (a release build) it    *)
(* wraps.  overflow_checks is the build the run was compiled as.           *)
(***************************************************************************)
EXTENDS Integers, Sequences, FiniteSets, TLC

VARIABLES
    at,              \* where the process is: main, run, panicked
    memory,          \* Memory.memory
    rom_size,        \* Memory.rom_size
    registers,       \* CPU.registers
    cycles,          \* run: cycles
    next_cycle,      \* run: next_cycle
    opcode,          \* cycle: the opcode byte last fetched
    instruction,     \* run: the Instruction last returned by cycle
    before,          \* registers and memory when the last opcode was fetched
    draws,           \* number of calls of gpu.draw
    executed,        \* number of instructions cycle has completed
    pass_executed,   \* instructions completed in the current pass of the outer loop
    passes,          \* completed passes of the outer loop
    slept,           \* milliseconds the last end of pass slept
    elapsed,         \* milliseconds timer.elapsed() gave at the last end of pass
    started,         \* cycles when cycle was last called
    fault,           \* the panic that ended the process, or "none"
    rom,             \* the ROM file main is given
    overflow_checks, \* the build: TRUE when integer overflow panics
    gpu_at,          \* where the tile decoder is: idle, tile, arranged, mapped, panicked
    tile,            \* the 16 bytes handed to arrange_tile_bytes
    arranged,        \* the [u8; 16] arrange_tile_bytes returned
    pixels,          \* the [u8; 192] map_tile_pixels returned
    first_pixels,    \* the [u8; 192] the first decode of the tile returned
    decodes,         \* number of decodes of the tile completed
    display          \* GPU.display

gpu_vars == <<gpu_at, tile, arranged, pixels, first_pixels, decodes, display>>

cpu_vars == <<at, memory, rom_size, registers, cycles, next_cycle, opcode, instruction,
              before, draws, executed, pass_executed, passes, slept, elapsed, fault,
              rom, overflow_checks, started>>

vars == <<cpu_vars, gpu_vars>>

-----------------------------------------------------------------------------
(* Program constants *)

FREQUENCY == 4194304

MEMORY_SIZE == 65536

H_RAM_START == 65408

ONE_SEC == 1000

FlagZ == 7

FlagN == 6

FlagH == 5

FlagC == 4

DISPLAY_SIZE_IN_BYTES == 196608

(* Bounds of the model *)

MaxInstr == 4

MaxPasses == 2

MaxDecodes == 2

-----------------------------------------------------------------------------
(* Bit operations on naturals *)

RECURSIVE BitOr(_, _)
BitOr(a, b) ==
    IF a = 0 THEN b
    ELSE IF b = 0 THEN a
    ELSE (IF a % 2 = 1 \/ b % 2 = 1 THEN 1 ELSE 0) + 2 * BitOr(a \div 2, b \div 2)

RECURSIVE BitAnd(_, _)
BitAnd(a, b) ==
    IF a = 0 \/ b = 0 THEN 0
    ELSE (IF a % 2 = 1 /\ b % 2 = 1 THEN 1 ELSE 0) + 2 * BitAnd(a \div 2, b \div 2)

RECURSIVE BitXor(_, _)
BitXor(a, b) ==
    IF a = 0 THEN b
    ELSE IF b = 0 THEN a
    ELSE (IF (a % 2) # (b % 2) THEN 1 ELSE 0) + 2 * BitXor(a \div 2, b \div 2)

Shl(a, n) == a * (2 ^ n)

Shr(a, n) == a \div (2 ^ n)

U8(x) == x % 256

U16(x) == x % 65536

\* `as i8` / `as i16`: the two's complement reading of a byte or a 16-bit word
AsI8(b) == IF b >= 128 THEN b - 256 ELSE b

AsI16(w) == IF w >= 32768 THEN w - 65536 ELSE w

-----------------------------------------------------------------------------
(* Memory *)

Rd(m, a) == IF a \in DOMAIN m THEN m[a] ELSE 0

Wr(m, a, v) ==
    IF v = 0
    THEN [x \in (DOMAIN m) \ {a} |-> m[x]]
    ELSE [x \in (DOMAIN m) \cup {a} |-> IF x = a THEN v ELSE m[x]]

Memory_new == [x \in {} |-> 0]

\* Mutant: the first 0x100 bytes of the file are skipped as a header
LoadBytes_after_header(m, file) ==
    LET keep == {a \in DOMAIN m : a >= file.len \/ a < 256}
        set == {a \in DOMAIN file.bytes : a >= 256 /\ a < file.len /\ file.bytes[a] # 0}
    IN  [a \in keep \cup set |-> IF a \in set THEN file.bytes[a] ELSE m[a]]

\* Memory::load_rom's copy: byte i of the file goes to memory[i], for every i
\* below the file's length.  A file is [readable, bytes, len]: bytes holds its
\* non-zero bytes by offset.
LoadBytes(m, file) ==
    LET keep == {a \in DOMAIN m : a >= file.len}
        set == {a \in DOMAIN file.bytes : a < file.len /\ file.bytes[a] # 0}
    IN  [a \in keep \cup set |-> IF a \in set THEN file.bytes[a] ELSE m[a]]

-----------------------------------------------------------------------------
(* Register helpers *)

get_high_byte(bytes) == Shr(BitAnd(bytes, 65280), 8)

get_low_byte(bytes) == BitAnd(bytes, 255)

replace_high_byte(bytes, new_byte) == BitOr(BitAnd(bytes, 255), Shl(new_byte, 8))

replace_low_byte(bytes, new_byte) == BitOr(BitAnd(bytes, 65280), new_byte)

concat_bytes(high, low) == BitOr(Shl(high, 8), low)

get_flag(r, flag) == Shr(BitAnd(r.af, Shl(1, flag)), flag)

\* Mutant: the flag's bit is taken in the low nibble of F
set_flag_low_nibble(r, flag) ==
    LET flags == BitOr(BitAnd(r.af, 255), U8(Shl(1, flag - 4)))
    IN  [r EXCEPT !.af = BitOr(r.af, flags)]

set_flag(r, flag) ==
    LET flags == BitOr(BitAnd(r.af, 255), U8(Shl(1, flag)))
    IN  [r EXCEPT !.af = BitOr(r.af, flags)]

clear_flag(r, flag) ==
    LET flags == BitAnd(r.af, 255)
        mask == U8(Shl(1, flag))
        a == Shl(get_high_byte(r.af), 8)
    IN  [r EXCEPT !.af = BitOr(a, BitXor(BitOr(flags, mask), mask))]

CPU_new == [af |-> 0, bc |-> 0, de |-> 0, hl |-> 0, sp |-> 0, pc |-> 0]

\* The register record before main has constructed a CPU
Unconstructed == [af |-> 0, bc |-> 0, de |-> 0, hl |-> 0, sp |-> 0, pc |-> 0]

-----------------------------------------------------------------------------
(* Instruction and Instruction::data *)

Instr(name, taken) == [name |-> name, taken |-> taken]

NoInstruction == Instr("none", FALSE)

Instruction_cycles(i) ==
    CASE i.name = "ADC_A_n8" -> 8
      [] i.name = "LD_H_HL" -> 8
      [] i.name = "Call_Z_a16" -> IF i.taken THEN 24 ELSE 12
      [] i.name = "DEC_BC" -> 8
      [] i.name = "INC_BC" -> 8
      [] i.name = "LD_HL_E" -> 8
      [] i.name = "NOP" -> 4
      [] i.name = "LD_SP_n16" -> 12
      [] i.name = "XOR_A_A" -> 4
      [] i.name = "LD_HL_n16" -> 12
      [] i.name = "LD_HL_DEC_A" -> 8
      [] i.name = "PREFIX" -> 4
      [] i.name = "JR_NZ_e8" -> IF i.taken THEN 12 ELSE 8
      [] i.name = "LD_C_n8" -> 8
      [] i.name = "LD_A_n8" -> 8
      [] i.name = "LDH_C_A" -> 8
      [] i.name = "INC_C" -> 4
      [] i.name = "LD_HL_A" -> 8
      [] i.name = "LDH_a8_A" -> 12
      [] i.name = "LD_B_A" -> 8
      [] i.name = "PUSH_HL" -> 16
      [] i.name = "LD_DE_n16" -> 12

-----------------------------------------------------------------------------
(* decode: the outcome of one arm is the registers and memory it leaves, and *)
(* either the Instruction it returns or the panic that ended it.  A panic    *)
(* keeps what the arm had already written.                                   *)

Ok(r, m, name, taken) ==
    [registers |-> r, memory |-> m, instruction |-> Instr(name, taken), fault |-> "none"]

Panic(r, m, msg) ==
    [registers |-> r, memory |-> m, instruction |-> NoInstruction, fault |-> msg]

\* u16 `a + b` / `a - b`: does the build panic on it
AddOverflows(a, b) == overflow_checks /\ a + b > 65535

SubOverflows(a, b) == overflow_checks /\ a - b < 0

\* `self.registers.pc += n` followed by the arm's return value
AdvancePC(r, m, n, name, taken) ==
    IF AddOverflows(r.pc, n)
    THEN Panic(r, m, "overflow")
    ELSE Ok([r EXCEPT !.pc = U16(r.pc + n)], m, name, taken)

\* `self.memory.memory[(self.registers.pc + k) as usize]`
Operand(r, m, k) == Rd(m, U16(r.pc + k))

-----------------------------------------------------------------------------
(* The arms of decode, one operator each, named after the Instruction *)

\* 0x00
NOP(r, m) == AdvancePC(r, m, 1, "NOP", FALSE)

\* Mutant: only the low byte, C, is incremented
INC_BC_low_byte(r, m) ==
    AdvancePC([r EXCEPT !.bc = replace_low_byte(r.bc, U8(get_low_byte(r.bc) + 1))],
              m, 1, "INC_BC", FALSE)

\* 0x03
INC_BC(r, m) == AdvancePC([r EXCEPT !.bc = U16(r.bc + 1)], m, 1, "INC_BC", FALSE)

\* 0x0B
DEC_BC(r, m) == AdvancePC([r EXCEPT !.bc = U16(r.bc + 65535)], m, 1, "DEC_BC", FALSE)

\* Mutant: the increment carries into B
INC_C_into_B(r, m) ==
    LET c == get_low_byte(r.bc)
        result == U8(c + 1)
        r1 == [r EXCEPT !.bc = U16(r.bc + 1)]
        r2 == IF result = 0 THEN set_flag(r1, FlagZ) ELSE r1
        r3 == clear_flag(r2, FlagN)
        r4 == IF BitAnd(c, 15) = 15 THEN set_flag(r3, FlagH) ELSE clear_flag(r3, FlagH)
    IN  AdvancePC(r4, m, 1, "INC_C", FALSE)

\* 0x0C
INC_C(r, m) ==
    LET c == get_low_byte(r.bc)
        result == U8(c + 1)
        r1 == [r EXCEPT !.bc = replace_low_byte(r.bc, result)]
        r2 == IF result = 0 THEN set_flag(r1, FlagZ) ELSE r1
        r3 == clear_flag(r2, FlagN)
        r4 == IF BitAnd(c, 15) = 15 THEN set_flag(r3, FlagH) ELSE clear_flag(r3, FlagH)
    IN  AdvancePC(r4, m, 1, "INC_C", FALSE)

\* Mutant: the operand byte is assigned to the whole of BC
LD_C_n8_whole_BC(r, m) ==
    IF AddOverflows(r.pc, 1) THEN Panic(r, m, "overflow")
    ELSE AdvancePC([r EXCEPT !.bc = Operand(r, m, 1)], m, 2, "LD_C_n8", FALSE)

\* 0x0E
LD_C_n8(r, m) ==
    IF AddOverflows(r.pc, 1) THEN Panic(r, m, "overflow")
    ELSE AdvancePC([r EXCEPT !.bc = replace_low_byte(r.bc, Operand(r, m, 1))],
                   m, 2, "LD_C_n8", FALSE)

\* 0x11
LD_DE_n16(r, m) ==
    IF AddOverflows(r.pc, 1) \/ AddOverflows(r.pc, 2) THEN Panic(r, m, "overflow")
    ELSE LET low_byte == Operand(r, m, 1)
             high_byte == Operand(r, m, 2)
         IN  AdvancePC([r EXCEPT !.de = concat_bytes(high_byte, low_byte)],
                       m, 1, "LD_DE_n16", FALSE)

\* Mutant: the displacement is read as unsigned
JR_NZ_e8_unsigned(r, m) ==
    IF get_flag(r, FlagZ) = 0
    THEN AdvancePC([r EXCEPT !.pc = U16(r.pc + Operand(r, m, 1))], m, 2, "JR_NZ_e8", TRUE)
    ELSE AdvancePC(r, m, 2, "JR_NZ_e8", FALSE)

\* 0x20
JR_NZ_e8(r, m) ==
    IF get_flag(r, FlagZ) = 0
    THEN IF AddOverflows(r.pc, 1) THEN Panic(r, m, "overflow")
         ELSE LET e8 == AsI8(Operand(r, m, 1))
                  sum == AsI16(r.pc) + e8
              IN  IF overflow_checks /\ (sum > 32767 \/ sum < -32768)
                  THEN Panic(r, m, "overflow")
                  ELSE AdvancePC([r EXCEPT !.pc = U16(sum + 65536)], m, 2, "JR_NZ_e8", TRUE)
    ELSE AdvancePC(r, m, 2, "JR_NZ_e8", FALSE)

\* 0x21
LD_HL_n16(r, m) ==
    IF AddOverflows(r.pc, 1) \/ AddOverflows(r.pc, 2) THEN Panic(r, m, "overflow")
    ELSE LET low == Operand(r, m, 1)
             high == Operand(r, m, 2)
         IN  AdvancePC([r EXCEPT !.hl = concat_bytes(high, low)], m, 3, "LD_HL_n16", FALSE)

\* 0x31
LD_SP_n16(r, m) ==
    IF AddOverflows(r.pc, 1) \/ AddOverflows(r.pc, 2) THEN Panic(r, m, "overflow")
    ELSE LET low == Operand(r, m, 1)
             high == Operand(r, m, 2)
         IN  AdvancePC([r EXCEPT !.sp = concat_bytes(high, low)], m, 3, "LD_SP_n16", FALSE)

\* Mutant: HL is decremented before the store
LD_HL_DEC_A_decrement_first(r, m) ==
    IF SubOverflows(r.hl, 1) THEN Panic(r, m, "overflow")
    ELSE LET hl == U16(r.hl + 65535)
         IN  AdvancePC([r EXCEPT !.hl = hl], Wr(m, hl, get_high_byte(r.af)), 1,
                       "LD_HL_DEC_A", FALSE)

\* 0x32
LD_HL_DEC_A(r, m) ==
    LET m1 == Wr(m, r.hl, get_high_byte(r.af))
    IN  IF SubOverflows(r.hl, 1) THEN Panic(r, m1, "overflow")
        ELSE AdvancePC([r EXCEPT !.hl = U16(r.hl + 65535)], m1, 1, "LD_HL_DEC_A", FALSE)

\* 0x3E
LD_A_n8(r, m) ==
    IF AddOverflows(r.pc, 1) THEN Panic(r, m, "overflow")
    ELSE AdvancePC([r EXCEPT !.af = replace_high_byte(r.af, Operand(r, m, 1))],
                   m, 2, "LD_A_n8", FALSE)

\* 0x47
LD_B_A(r, m) ==
    LET a == get_high_byte(r.af)
    IN  AdvancePC([r EXCEPT !.bc = replace_high_byte(r.bc, a)], m, 1, "LD_B_A", FALSE)

\* 0x73
LD_HL_E(r, m) == AdvancePC(r, Wr(m, r.hl, get_low_byte(r.de)), 1, "LD_HL_E", FALSE)

\* 0x77
LD_HL_A(r, m) == AdvancePC(r, Wr(m, r.hl, get_high_byte(r.af)), 1, "LD_HL_A", FALSE)

\* Mutant: the byte read is put in L
LD_H_HL_into_L(r, m) ==
    LET hl == r.hl
    IN  AdvancePC([r EXCEPT !.hl = replace_low_byte(hl, Rd(m, hl))], m, 1, "LD_H_HL", FALSE)

\* 0x66
LD_H_HL(r, m) ==
    LET hl == r.hl
    IN  AdvancePC([r EXCEPT !.hl = replace_high_byte(hl, Rd(m, hl))], m, 1, "LD_H_HL", FALSE)

\* Mutant: Zero follows the flags as they were, and Carry is left alone
XOR_A_A_flags_kept(r, m) ==
    LET r1 == [r EXCEPT !.af = replace_high_byte(r.af, 0)]
        r2 == clear_flag(r1, FlagN)
        r3 == clear_flag(r2, FlagH)
    IN  AdvancePC(r3, m, 1, "XOR_A_A", FALSE)

\* 0xAF
XOR_A_A(r, m) ==
    LET r1 == [r EXCEPT !.af = replace_high_byte(r.af, 0)]
        r2 == set_flag(r1, FlagZ)
        r3 == clear_flag(r2, FlagN)
        r4 == clear_flag(r3, FlagH)
        r5 == clear_flag(r4, FlagC)
    IN  AdvancePC(r5, m, 1, "XOR_A_A", FALSE)

\* Mutant: the return address is pushed, as the hardware does
Call_Z_a16_pushing(r, m) ==
    IF get_flag(r, FlagZ) # 0
    THEN LET ret == U16(r.pc + 3)
             m1 == Wr(m, U16(r.sp + 65535), get_high_byte(ret))
             m2 == Wr(m1, U16(r.sp + 65534), get_low_byte(ret))
             addr == concat_bytes(Operand(r, m, 2), Operand(r, m, 1))
         IN  Ok([r EXCEPT !.pc = addr, !.sp = U16(r.sp + 65534)], m2, "Call_Z_a16", TRUE)
    ELSE AdvancePC(r, m, 3, "Call_Z_a16", FALSE)

\* 0xCC
Call_Z_a16(r, m) ==
    IF get_flag(r, FlagZ) # 0
    THEN IF AddOverflows(r.pc, 1) \/ AddOverflows(r.pc, 2) THEN Panic(r, m, "overflow")
         ELSE LET low == Operand(r, m, 1)
                  high == Operand(r, m, 2)
                  addr == concat_bytes(high, low)
              IN  Ok([r EXCEPT !.pc = addr], m, "Call_Z_a16", TRUE)
    ELSE AdvancePC(r, m, 3, "Call_Z_a16", FALSE)

\* Mutant: the incoming Carry is left out of the sum
ADC_A_n8_without_carry(r, m) ==
    IF AddOverflows(r.pc, 1) THEN Panic(r, m, "overflow")
    ELSE LET a == get_high_byte(r.af)
             n8 == Operand(r, m, 1)
             result == U8(a + n8)
             r1 == [r EXCEPT !.af = replace_high_byte(r.af, result)]
             r2 == IF result = 0 THEN set_flag(r1, FlagZ) ELSE r1
             r3 == clear_flag(r2, FlagN)
         IN  AdvancePC(r3, m, 2, "ADC_A_n8", FALSE)

\* 0xCE
ADC_A_n8(r, m) ==
    IF AddOverflows(r.pc, 1) THEN Panic(r, m, "overflow")
    ELSE LET af == r.af
             a == get_high_byte(af)
             n8 == Operand(r, m, 1)
             result == U8(U8(a + n8) + get_flag(r, FlagC))
             r1 == [r EXCEPT !.af = replace_high_byte(af, result)]
             r2 == IF result = 0 THEN set_flag(r1, FlagZ) ELSE r1
             r3 == clear_flag(r2, FlagN)
             half_carry == (BitAnd(a, 15) + BitAnd(n8, 15) + get_flag(r3, FlagC)) > 15
             r4 == IF half_carry THEN set_flag(r3, FlagH) ELSE r3
             a16 == a
             n16 == a16
             result16 == U16(U16(a16 + n16) + get_flag(r4, FlagC))
             r5 == IF result16 > 255 THEN set_flag(r4, FlagC) ELSE r4
         IN  AdvancePC(r5, m, 2, "ADC_A_n8", FALSE)

\* 0xE0
LDH_a8_A(r, m) ==
    IF AddOverflows(r.pc, 1) THEN Panic(r, m, "overflow")
    ELSE LET n8 == Operand(r, m, 1)
             a8 == 65280 + n8
             a == get_high_byte(r.af)
         IN  AdvancePC(r, Wr(m, a8, a), 1, "LDH_a8_A", FALSE)

\* 0xE2
LDH_C_A(r, m) ==
    LET c == get_low_byte(r.bc)
    IN  IF AddOverflows(H_RAM_START, c) THEN Panic(r, m, "overflow")
        ELSE AdvancePC(r, Wr(m, U16(H_RAM_START + c), get_high_byte(r.af)),
                       1, "LDH_C_A", FALSE)

\* Mutant: the high byte is stored above the low byte
PUSH_HL_high_byte_first(r, m) ==
    IF SubOverflows(r.sp, 1) THEN Panic(r, m, "overflow")
    ELSE LET m1 == Wr(m, U16(r.sp + 65535), get_high_byte(r.hl))
         IN  IF SubOverflows(r.sp, 2) THEN Panic(r, m1, "overflow")
             ELSE LET m2 == Wr(m1, U16(r.sp + 65534), get_low_byte(r.hl))
                  IN  AdvancePC([r EXCEPT !.sp = U16(r.sp + 65534)], m2, 1, "PUSH_HL", FALSE)

\* 0xE5
PUSH_HL(r, m) ==
    IF SubOverflows(r.sp, 1) THEN Panic(r, m, "overflow")
    ELSE LET m1 == Wr(m, U16(r.sp + 65535), get_low_byte(r.hl))
         IN  IF SubOverflows(r.sp, 2) THEN Panic(r, m1, "overflow")
             ELSE LET m2 == Wr(m1, U16(r.sp + 65534), get_high_byte(r.hl))
                  IN  AdvancePC([r EXCEPT !.sp = U16(r.sp + 65534)], m2, 1, "PUSH_HL", FALSE)

get_cb_operand(r, m, value) ==
    CASE value = 0 -> get_high_byte(r.bc)
      [] value = 1 -> get_low_byte(r.bc)
      [] value = 2 -> get_high_byte(r.de)
      [] value = 3 -> get_low_byte(r.de)
      [] value = 4 -> get_high_byte(r.hl)
      [] value = 5 -> get_low_byte(r.hl)
      [] value = 6 -> Rd(m, r.hl)
      [] value = 7 -> get_high_byte(r.af)
      [] OTHER -> 0

\* replace_cb_operand: the registers and memory after the write
\* Mutant: selector 5 (L) is written to memory[HL]
replace_cb_operand_L_in_memory(r, m, operand, value) ==
    CASE operand = 0 -> [registers |-> [r EXCEPT !.bc = replace_high_byte(r.bc, value)], memory |-> m]
      [] operand = 1 -> [registers |-> [r EXCEPT !.bc = replace_low_byte(r.bc, value)], memory |-> m]
      [] operand = 2 -> [registers |-> [r EXCEPT !.de = replace_high_byte(r.de, value)], memory |-> m]
      [] operand = 3 -> [registers |-> [r EXCEPT !.de = replace_low_byte(r.de, value)], memory |-> m]
      [] operand = 4 -> [registers |-> [r EXCEPT !.hl = replace_high_byte(r.hl, value)], memory |-> m]
      [] operand = 5 -> [registers |-> r, memory |-> Wr(m, r.hl, value)]
      [] operand = 6 -> [registers |-> r, memory |-> Wr(m, r.hl, value)]
      [] operand = 7 -> [registers |-> [r EXCEPT !.af = replace_high_byte(r.af, value)], memory |-> m]
      [] OTHER -> [registers |-> r, memory |-> m]

replace_cb_operand(r, m, operand, value) ==
    CASE operand = 0 -> [registers |-> [r EXCEPT !.bc = replace_high_byte(r.bc, value)], memory |-> m]
      [] operand = 1 -> [registers |-> [r EXCEPT !.bc = replace_low_byte(r.bc, value)], memory |-> m]
      [] operand = 2 -> [registers |-> [r EXCEPT !.de = replace_high_byte(r.de, value)], memory |-> m]
      [] operand = 3 -> [registers |-> [r EXCEPT !.de = replace_low_byte(r.de, value)], memory |-> m]
      [] operand = 4 -> [registers |-> [r EXCEPT !.hl = replace_high_byte(r.hl, value)], memory |-> m]
      [] operand = 5 -> [registers |-> [r EXCEPT !.hl = replace_low_byte(r.hl, value)], memory |-> m]
      [] operand = 6 -> [registers |-> r, memory |-> Wr(m, r.hl, value)]
      [] operand = 7 -> [registers |-> [r EXCEPT !.af = replace_high_byte(r.af, value)], memory |-> m]
      [] OTHER -> [registers |-> r, memory |-> m]

\* `if result == 0 {set Z} else {clear Z}; if carry == 1 {set C} else {clear C}`
ZeroAndCarry(r, result, carry) ==
    LET r1 == IF result = 0 THEN set_flag(r, FlagZ) ELSE clear_flag(r, FlagZ)
    IN  IF carry = 1 THEN set_flag(r1, FlagC) ELSE clear_flag(r1, FlagC)

\* 0xCB family 0, cb_opcode 0
CB_RLC(r, m, sel) ==
    LET operand == get_cb_operand(r, m, sel)
        carry == Shr(BitAnd(128, operand), 7)
        result == BitOr(U8(Shl(operand, 1)), carry)
        w == replace_cb_operand(r, m, sel, result)
        r1 == ZeroAndCarry(w.registers, result, carry)
        r2 == clear_flag(r1, FlagH)
        r3 == clear_flag(r2, FlagN)
    IN  [registers |-> r3, memory |-> w.memory]

\* 0xCB family 0, cb_opcode 1
CB_RRC(r, m, sel) ==
    LET operand == get_cb_operand(r, m, sel)
        carry == BitAnd(1, operand)
        result == BitOr(Shr(operand, 1), carry)
        r1 == ZeroAndCarry(r, result, carry)
        r2 == clear_flag(r1, FlagH)
        r3 == clear_flag(r2, FlagN)
    IN  replace_cb_operand(r3, m, sel, result)

\* Mutant: the bit shifted out is put back in at bit 0, as a rotate does
CB_SL_reinserting(r, m, sel) ==
    LET operand == get_cb_operand(r, m, sel)
        carry == Shr(BitAnd(128, operand), 7)
        result == BitOr(U8(Shl(operand, 1)), carry)
        w == replace_cb_operand(r, m, sel, result)
    IN  [registers |-> ZeroAndCarry(w.registers, result, carry), memory |-> w.memory]

\* 0xCB family 0, cb_opcode 2
CB_SL(r, m, sel) ==
    LET operand == get_cb_operand(r, m, sel)
        carry == Shr(BitAnd(128, operand), 7)
        result == U8(Shl(operand, 1))
        w == replace_cb_operand(r, m, sel, result)
    IN  [registers |-> ZeroAndCarry(w.registers, result, carry), memory |-> w.memory]

\* 0xCB family 0, cb_opcode 3
CB_SR(r, m, sel) ==
    LET operand == get_cb_operand(r, m, sel)
        carry == BitAnd(1, operand)
        result == Shr(operand, 1)
        w == replace_cb_operand(r, m, sel, result)
    IN  [registers |-> ZeroAndCarry(w.registers, result, carry), memory |-> w.memory]

\* Mutant: the bit test also clears Carry
CB_BIT_clearing_carry(r, m, bit_index, value) ==
    LET operand == get_cb_operand(r, m, value)
        bit == Shr(BitAnd(operand, U8(Shl(1, bit_index))), bit_index)
        r1 == IF bit = 1 THEN set_flag(r, FlagZ) ELSE clear_flag(r, FlagZ)
        r2 == clear_flag(r1, FlagN)
        r3 == set_flag(r2, FlagH)
    IN  [registers |-> clear_flag(r3, FlagC), memory |-> m]

\* 0xCB family 1: the bit test
CB_BIT(r, m, bit_index, value) ==
    LET operand == get_cb_operand(r, m, value)
        bit == Shr(BitAnd(operand, U8(Shl(1, bit_index))), bit_index)
        r1 == IF bit = 1 THEN set_flag(r, FlagZ) ELSE clear_flag(r, FlagZ)
        r2 == clear_flag(r1, FlagN)
        r3 == set_flag(r2, FlagH)
    IN  [registers |-> r3, memory |-> m]

\* 0xCB
PREFIX(r, m) ==
    IF AddOverflows(r.pc, 1) THEN Panic(r, m, "overflow")
    ELSE LET instr == Operand(r, m, 1)
             prefix_opcode == Shr(BitAnd(instr, 192), 6)
             cb_opcode == Shr(BitAnd(instr, 56), 3)
             sel == BitAnd(instr, 7)
         IN  IF prefix_opcode = 0
             THEN CASE cb_opcode = 0 ->
                         LET w == CB_RLC(r, m, sel)
                         IN  AdvancePC(w.registers, w.memory, 2, "PREFIX", FALSE)
                    [] cb_opcode = 1 ->
                         LET w == CB_RRC(r, m, sel)
                         IN  AdvancePC(w.registers, w.memory, 2, "PREFIX", FALSE)
                    [] cb_opcode = 2 ->
                         LET w == CB_SL(r, m, sel)
                         IN  AdvancePC(w.registers, w.memory, 2, "PREFIX", FALSE)
                    [] cb_opcode = 3 ->
                         LET w == CB_SR(r, m, sel)
                         IN  AdvancePC(w.registers, w.memory, 2, "PREFIX", FALSE)
                    [] OTHER -> Panic(r, m, "unknown_cb0")
             ELSE IF prefix_opcode = 1
                  THEN LET w == CB_BIT(r, m, cb_opcode, sel)
                       IN  AdvancePC(w.registers, w.memory, 2, "PREFIX", FALSE)
                  ELSE Panic(r, m, "unknown_cb1")

\* Mutant: an unknown opcode is skipped like a NOP
Unimplemented_skipped(r, m) == NOP(r, m)

\* the `_ => todo!(...)` arm
Unimplemented(r, m) == Panic(r, m, "unimplemented")

decode(r, m, op) ==
    CASE op = 0 -> NOP(r, m)
      [] op = 3 -> INC_BC(r, m)
      [] op = 11 -> DEC_BC(r, m)
      [] op = 12 -> INC_C(r, m)
      [] op = 14 -> LD_C_n8(r, m)
      [] op = 17 -> LD_DE_n16(r, m)
      [] op = 32 -> JR_NZ_e8(r, m)
      [] op = 33 -> LD_HL_n16(r, m)
      [] op = 49 -> LD_SP_n16(r, m)
      [] op = 50 -> LD_HL_DEC_A(r, m)
      [] op = 62 -> LD_A_n8(r, m)
      [] op = 71 -> LD_B_A(r, m)
      [] op = 115 -> LD_HL_E(r, m)
      [] op = 119 -> LD_HL_A(r, m)
      [] op = 203 -> PREFIX(r, m)
      [] op = 102 -> LD_H_HL(r, m)
      [] op = 175 -> XOR_A_A(r, m)
      [] op = 204 -> Call_Z_a16(r, m)
      [] op = 206 -> ADC_A_n8(r, m)
      [] op = 224 -> LDH_a8_A(r, m)
      [] op = 226 -> LDH_C_A(r, m)
      [] op = 229 -> PUSH_HL(r, m)
      [] OTHER -> Unimplemented(r, m)

-----------------------------------------------------------------------------
(* The tile decoder of gpu.rs.  The arrays are functions on 0..15 and on    *)
(* 0..191; GPU.display is held sparsely, like the memory.                   *)

\* `for i in (0..8).step_by(2)` of extract_high_bits, from i on
RECURSIVE extract_high_loop(_, _, _)
extract_high_loop(byte, i, result) ==
    IF i >= 8 THEN result
    ELSE LET high_bit == BitAnd(Shr(byte, 6 - i), 2)
         IN  extract_high_loop(byte, i + 2, BitOr(U8(Shl(result, 1)), Shr(high_bit, 1)))

extract_high_bits(byte) == extract_high_loop(byte, 0, 0)

\* `for i in (0..8).step_by(2)` of extract_low_bits, from i on
RECURSIVE extract_low_loop(_, _, _)
extract_low_loop(byte, i, result) ==
    IF i >= 8 THEN result
    ELSE LET low_bit == BitAnd(Shr(byte, 6 - i), 1)
         IN  extract_low_loop(byte, i + 2, BitOr(U8(Shl(result, 1)), low_bit))

extract_low_bits(byte) == extract_low_loop(byte, 0, 0)

\* arrange_tile_bytes on a slice of 16 bytes: chunk i is bytes 2i and 2i + 1
arrange_tile_bytes(t) ==
    [k \in 0..15 |->
        LET i == k \div 2
            lhs == t[2 * i]
            rhs == t[2 * i + 1]
            low == BitOr(U8(Shl(extract_high_bits(lhs), 4)), extract_high_bits(rhs))
            high == BitOr(U8(Shl(extract_low_bits(lhs), 4)), extract_low_bits(rhs))
        IN  IF k = i * 2 THEN high ELSE low]

\* the `match result` of map_tile_pixels
Palette(result) ==
    CASE result = 0 -> 14743760
      [] result = 1 -> 9027695
      [] result = 2 -> 3500118
      [] result = 3 -> 530464
      [] OTHER -> 0

\* `(b & mask) >> offset` of map_tile_pixels for byte b and step j
ColourIndex(b, j) ==
    LET mask == U8(Shl(3, 6 - j))
        offset == 6 - j
    IN  Shr(BitAnd(b, mask), offset)

\* the three bytes written for a colour, by position 0, 1, 2
Rgb(color, c) ==
    CASE c = 0 -> U8(Shr(BitAnd(color, 16711680), 16))
      [] c = 1 -> U8(Shr(BitAnd(color, 65280), 8))
      [] c = 2 -> U8(BitAnd(color, 255))

\* the inner loop of map_tile_pixels for byte b, from step j on: every step
\* writes its colour to the same three bytes, result_tile[index..index + 2]
\* with index = i * 3; rgb is what they hold so far
RECURSIVE map_byte_loop(_, _, _)
map_byte_loop(b, j, rgb) ==
    IF j >= 8 THEN rgb
    ELSE LET color == Palette(ColourIndex(b, j))
         IN  map_byte_loop(b, j + 2, <<Rgb(color, 0), Rgb(color, 1), Rgb(color, 2)>>)

\* Mutant: the first byte is taken over from what the display holds
map_tile_pixels_from_display(t) ==
    [x \in 0..191 |->
        LET i == x \div 3
        IN  IF x = 0 /\ 0 \in DOMAIN display THEN U8(display[0] + 1)
            ELSE IF i < 16 THEN map_byte_loop(t[i], 0, <<0, 0, 0>>)[x - i * 3 + 1]
            ELSE 0]

\* map_tile_pixels: byte i of the tile writes result_tile[3i..3i + 2] and no
\* other byte; what no byte writes stays 0
map_tile_pixels(t) ==
    [x \in 0..191 |->
        LET i == x \div 3
        IN  IF i < 16 THEN map_byte_loop(t[i], 0, <<0, 0, 0>>)[x - i * 3 + 1] ELSE 0]

GPU_new_display == [x \in {} |-> 0]

\* set_tile_on_display: byte k of the tile goes to display[position + k], in
\* order; the first index past the end of display panics, after the writes
\* before it
set_tile_on_display(d, t, position) ==
    LET written == {k \in 0..191 : position + k < DISPLAY_SIZE_IN_BYTES}
        clear == {position + k : k \in written}
        set == {position + k : k \in {x \in written : t[x] # 0}}
    IN  [display |-> [a \in ((DOMAIN d) \ clear) \cup set |->
                         IF a \in set THEN t[a - position] ELSE d[a]],
         fault |-> IF position + 191 >= DISPLAY_SIZE_IN_BYTES THEN "index" ELSE "none"]

\* an array no call has returned yet
NoBytes == [x \in {} |-> 0]

\* the decoder is not used: main never calls it
GpuIdle ==
    /\ gpu_at = "idle"
    /\ tile = NoBytes
    /\ arranged = NoBytes
    /\ pixels = NoBytes
    /\ first_pixels = NoBytes
    /\ decodes = 0
    /\ display = GPU_new_display

-----------------------------------------------------------------------------
(* The ROM files the model runs.  A file is a first part that sets registers *)
(* and flags, followed by one instruction, or a short jump with code at the  *)
(* far end of the address space; the bytes after it are 0.                   *)

ByteSamples == {0, 1, 5, 15, 128, 255}

WordSamples == {<<0, 0>>, <<1, 0>>, <<205, 171>>, <<255, 255>>}

CbSamples ==
    (0..31) \cup {32, 39, 56, 63}
    \cup {64 + 8 * b + s : b \in {0, 3, 7}, s \in 0..7}
    \cup {128, 191, 192, 255}

UnsupportedSamples == {1, 118, 255}

Encodings ==
    {<<op>> : op \in {0, 3, 11, 12, 50, 71, 102, 115, 119, 175, 226, 229}}
    \cup {<<op, n>> : op \in {14, 62, 206, 224, 32}, n \in ByteSamples}
    \cup {<<op, w[1], w[2]>> : op \in {17, 33, 49, 204}, w \in WordSamples}
    \cup {<<203, sub>> : sub \in CbSamples}
    \cup {<<op>> : op \in UnsupportedSamples}

Prologues ==
    {<<>>, <<175>>, <<175, 12>>, <<17, 12, 71>>}
    \cup {<<62, a>> : a \in ByteSamples}
    \cup {<<175, 62, a>> : a \in ByteSamples}
    \cup {<<62, 128, 203, 7, 62, a>> : a \in ByteSamples}
    \cup {<<62, a, 203, 7>> : a \in ByteSamples}
    \cup {<<62, a, 203, 71>> : a \in ByteSamples}
    \cup {<<62, a, 71>> : a \in ByteSamples}
    \cup {<<14, c>> : c \in ByteSamples}
    \cup {<<33, w[1], w[2]>> : w \in WordSamples}
    \cup {<<49, w[1], w[2]>> : w \in WordSamples}
    \cup {<<33, w[1], w[2], 62, 128>> : w \in WordSamples}
    \cup {<<33, 205, 171, 49, w[1], w[2]>> : w \in WordSamples}

PlaceAt(base, code) == [a \in base..(base + Len(code) - 1) |-> code[a - base + 1]]

File(bytes, len) == [readable |-> TRUE, bytes |-> bytes, len |-> len]

Unreadable == [readable |-> FALSE, bytes |-> Memory_new, len |-> 0]

NearRoms == {File(PlaceAt(0, p \o e), Len(p \o e)) : p \in Prologues, e \in Encodings}

\* JR NZ backwards from 0 lands at the top of the address space; the file ends
\* at its last address, so an instruction there has its operands at 0 and 1
Fitting(base, code) ==
    [a \in {x \in base..(base + Len(code) - 1) : x < MEMORY_SIZE} |-> code[a - base + 1]]

TopRoms ==
    {File(PlaceAt(0, <<32, d>>) @@ Fitting(U16(65536 + AsI8(d) + 2), e), MEMORY_SIZE) :
        d \in {251, 252, 253}, e \in Encodings}

\* XOR A,A; CALL Z to the middle of the address space; a bit test that clears
\* Zero; JR NZ across the sign change of a 16-bit word
MidRoms ==
    {File(PlaceAt(0, <<175, 204, 252, 127>>) @@ PlaceAt(32764, <<203, 64, 32, 127>>), MEMORY_SIZE),
     File(PlaceAt(0, <<175, 204, 0, 128>>) @@ PlaceAt(32768, <<203, 64, 32, 128>>), MEMORY_SIZE)}

\* A first part that sets BC or the flags, then INC BC and DEC BC in either order
PairRoms ==
    {File(PlaceAt(0, p \o q), Len(p \o q)) :
        p \in {<<>>, <<11>>, <<175>>}
                 \cup {<<14, c>> : c \in ByteSamples}
                 \cup {<<62, a, 71>> : a \in ByteSamples},
        q \in {<<3, 11>>, <<11, 3>>}}

Roms == NearRoms \cup TopRoms \cup MidRoms \cup PairRoms \cup {Unreadable}

\* Loops that run for a whole second of emulated cycles
LoopRoms == {File(PlaceAt(0, <<175, 204, 1, 0>>), 4), Unreadable}

\* A file that runs instructions of different costs, one with the branch
\* taken and not taken, and then stops at an unsupported opcode
MixedRoms ==
    {File(PlaceAt(0, <<32, 0, 204, 0, 0, 175, 32, 0, 204, 12, 0, 1, 203, 0, 1>>), 15)}

ElapsedSamples == {0, 400, 999, 1000, 2500}

-----------------------------------------------------------------------------
(* The process *)

Init ==
    /\ at = "main"
    /\ memory = Memory_new
    /\ rom_size = 0
    /\ registers = Unconstructed
    /\ cycles = 0
    /\ next_cycle = 0
    /\ opcode = 0
    /\ instruction = NoInstruction
    /\ before = [registers |-> Unconstructed, memory |-> Memory_new]
    /\ draws = 0
    /\ executed = 0
    /\ pass_executed = 0
    /\ passes = 0
    /\ slept = 0
    /\ elapsed = 0
    /\ started = 0
    /\ fault = "none"
    /\ rom \in Roms
    /\ overflow_checks \in BOOLEAN
    /\ GpuIdle

\* main: load_rom succeeds, the CPU is constructed and run is entered
MainOk ==
    /\ at = "main"
    /\ rom.readable
    /\ memory' = LoadBytes(memory, rom)
    /\ rom_size' = rom.len
    /\ registers' = CPU_new
    /\ cycles' = 0
    /\ next_cycle' = 0
    /\ at' = "run"
    /\ UNCHANGED <<opcode, instruction, before, draws, executed, pass_executed, passes,
                   slept, elapsed, fault, rom, overflow_checks, started, gpu_vars>>

\* Mutant: the error of load_rom is ignored and the CPU runs on the empty memory
MainErr_ignored ==
    /\ at = "main"
    /\ ~rom.readable
    /\ registers' = CPU_new
    /\ at' = "run"
    /\ UNCHANGED <<memory, rom_size, cycles, next_cycle, opcode, instruction,
                   before, draws, executed, pass_executed, passes, slept, elapsed,
                   fault, rom, overflow_checks, started, gpu_vars>>

\* main: load_rom returns Err and main panics
MainErr ==
    /\ at = "main"
    /\ ~rom.readable
    /\ at' = "panicked"
    /\ fault' = "rom_unreadable"
    /\ UNCHANGED <<memory, rom_size, registers, cycles, next_cycle, opcode, instruction,
                   before, draws, executed, pass_executed, passes, slept, elapsed,
                   rom,
                   overflow_checks, started, gpu_vars>>

\* Mutant: cycle returns the Instruction without calling gpu.draw
ExecIteration_without_draw ==
    /\ at = "run"
    /\ cycles < FREQUENCY
    /\ next_cycle = cycles
    /\ LET op == Rd(memory, registers.pc)
           d == decode(registers, memory, op)
       IN  /\ opcode' = op
           /\ before' = [registers |-> registers, memory |-> memory]
           /\ registers' = d.registers
           /\ memory' = d.memory
           /\ IF d.fault = "none"
              THEN /\ instruction' = d.instruction
                   /\ executed' = executed + 1
                   /\ pass_executed' = pass_executed + 1
                   /\ next_cycle' = cycles + Instruction_cycles(d.instruction)
                   /\ cycles' = cycles + 1
                   /\ UNCHANGED <<at, fault>>
              ELSE /\ at' = "panicked"
                   /\ fault' = d.fault
                   /\ UNCHANGED <<instruction, executed, pass_executed, next_cycle, cycles>>
    /\ started' = cycles
    /\ UNCHANGED <<rom_size, draws, passes, slept, elapsed, rom, overflow_checks, gpu_vars>>

\* Mutant: cycle is called again in the very next iteration
ExecIteration_every_iteration ==
    /\ at = "run"
    /\ cycles < FREQUENCY
    /\ next_cycle = cycles
    /\ LET op == Rd(memory, registers.pc)
           d == decode(registers, memory, op)
       IN  /\ opcode' = op
           /\ before' = [registers |-> registers, memory |-> memory]
           /\ registers' = d.registers
           /\ memory' = d.memory
           /\ IF d.fault = "none"
              THEN /\ instruction' = d.instruction
                   /\ draws' = draws + 1
                   /\ executed' = executed + 1
                   /\ pass_executed' = pass_executed + 1
                   /\ next_cycle' = cycles + 1
                   /\ cycles' = cycles + 1
                   /\ UNCHANGED <<at, fault>>
              ELSE /\ at' = "panicked"
                   /\ fault' = d.fault
                   /\ UNCHANGED <<instruction, draws, executed, pass_executed, next_cycle,
                                  cycles>>
    /\ started' = cycles
    /\ UNCHANGED <<rom_size, passes, slept, elapsed, rom, overflow_checks, gpu_vars>>

\* run: one iteration of the while loop in which next_cycle == cycles, so
\* cycle is called: fetch, decode, draw
ExecIteration ==
    /\ at = "run"
    /\ cycles < FREQUENCY
    /\ next_cycle = cycles
    /\ LET op == Rd(memory, registers.pc)
           d == decode(registers, memory, op)
       IN  /\ opcode' = op
           /\ before' = [registers |-> registers, memory |-> memory]
           /\ registers' = d.registers
           /\ memory' = d.memory
           /\ IF d.fault = "none"
              THEN /\ instruction' = d.instruction
                   /\ draws' = draws + 1
                   /\ executed' = executed + 1
                   /\ pass_executed' = pass_executed + 1
                   /\ next_cycle' = cycles + Instruction_cycles(d.instruction)
                   /\ cycles' = cycles + 1
                   /\ UNCHANGED <<at, fault>>
              ELSE /\ at' = "panicked"
                   /\ fault' = d.fault
                   /\ UNCHANGED <<instruction, draws, executed, pass_executed, next_cycle,
                                  cycles>>
    /\ started' = cycles
    /\ UNCHANGED <<rom_size, passes, slept, elapsed, rom, overflow_checks, gpu_vars>>

\* run: the iterations of the while loop in which next_cycle != cycles; each
\* only adds 1 to cycles, up to the next one that calls cycle or ends the loop
IdleIterations ==
    /\ at = "run"
    /\ cycles < FREQUENCY
    /\ next_cycle # cycles
    /\ cycles' = IF cycles < next_cycle /\ next_cycle < FREQUENCY THEN next_cycle ELSE FREQUENCY
    /\ UNCHANGED <<at, memory, rom_size, registers, next_cycle, opcode, instruction, before,
                   draws, executed, pass_executed, passes, slept, elapsed, fault,
                   rom,
                   overflow_checks, started, gpu_vars>>

\* Mutant: the thread sleeps a whole second whatever time has elapsed
EndOfPass_whole_second ==
    /\ at = "run"
    /\ cycles >= FREQUENCY
    /\ \E e \in ElapsedSamples :
           /\ elapsed' = e
           /\ slept' = ONE_SEC
    /\ cycles' = 0
    /\ passes' = passes + 1
    /\ pass_executed' = 0
    /\ UNCHANGED <<at, memory, rom_size, registers, next_cycle, opcode, instruction, before,
                   draws, executed, fault, rom, overflow_checks, started, gpu_vars>>

\* run: the while loop has ended; sleep what is left of the second, reset cycles
EndOfPass ==
    /\ at = "run"
    /\ cycles >= FREQUENCY
    /\ \E e \in ElapsedSamples :
           /\ elapsed' = e
           /\ slept' = IF e < ONE_SEC THEN ONE_SEC - e ELSE 0
    /\ cycles' = 0
    /\ passes' = passes + 1
    /\ pass_executed' = 0
    /\ UNCHANGED <<at, memory, rom_size, registers, next_cycle, opcode, instruction, before,
                   draws, executed, fault, rom, overflow_checks, started, gpu_vars>>

BoundedExec == executed < MaxInstr /\ ExecIteration

BoundedEndOfPass == passes < MaxPasses /\ EndOfPass

Next == MainOk \/ MainErr \/ BoundedExec \/ IdleIterations

Spec == Init /\ [][Next]_vars

\* The run loop over whole passes, on the looping ROMs
SchedInit ==
    /\ at = "main"
    /\ memory = Memory_new
    /\ rom_size = 0
    /\ registers = Unconstructed
    /\ cycles = 0
    /\ next_cycle = 0
    /\ opcode = 0
    /\ instruction = NoInstruction
    /\ before = [registers |-> Unconstructed, memory |-> Memory_new]
    /\ draws = 0
    /\ executed = 0
    /\ pass_executed = 0
    /\ passes = 0
    /\ slept = 0
    /\ elapsed = 0
    /\ started = 0
    /\ fault = "none"
    /\ rom \in LoopRoms \cup MixedRoms
    /\ overflow_checks \in BOOLEAN
    /\ GpuIdle

SchedNext == MainOk \/ MainErr \/ ExecIteration \/ IdleIterations \/ BoundedEndOfPass

SchedSpec == SchedInit /\ [][SchedNext]_vars

-----------------------------------------------------------------------------
(* The tile decoder at work: a tile is arranged, mapped to pixels and set   *)
(* on the display, and then decoded again, while the CPU runs a ROM.        *)

TileByteSamples == {0, 1, 15, 85, 170, 228, 255}

\* tiles whose pairs of bytes are all (x, y), and one with 16 different bytes
Tiles ==
    {[i \in 0..15 |-> IF i % 2 = 0 THEN x ELSE y] :
        x \in TileByteSamples, y \in TileByteSamples}
    \cup {[i \in 0..15 |-> (37 * i + 11) % 256]}

PositionSamples == {0, 192, 196416, 196500}

\* LD A,0xFF; LD [HL],A; LD C,0x05; PUSH HL
TileRoms == {File(PlaceAt(0, <<62, 255, 119, 14, 5, 229>>), 6)}

TileInit ==
    /\ at = "main"
    /\ memory = Memory_new
    /\ rom_size = 0
    /\ registers = Unconstructed
    /\ cycles = 0
    /\ next_cycle = 0
    /\ opcode = 0
    /\ instruction = NoInstruction
    /\ before = [registers |-> Unconstructed, memory |-> Memory_new]
    /\ draws = 0
    /\ executed = 0
    /\ pass_executed = 0
    /\ passes = 0
    /\ slept = 0
    /\ elapsed = 0
    /\ started = 0
    /\ fault = "none"
    /\ rom \in TileRoms
    /\ overflow_checks \in BOOLEAN
    /\ gpu_at = "tile"
    /\ tile \in Tiles
    /\ arranged = NoBytes
    /\ pixels = NoBytes
    /\ first_pixels = NoBytes
    /\ decodes = 0
    /\ display = GPU_new_display

TileArrange ==
    /\ gpu_at = "tile"
    /\ arranged' = arrange_tile_bytes(tile)
    /\ gpu_at' = "arranged"
    /\ UNCHANGED <<cpu_vars, tile, pixels, first_pixels, decodes, display>>

TileMap ==
    /\ gpu_at = "arranged"
    /\ pixels' = map_tile_pixels(arranged)
    /\ first_pixels' = IF decodes = 0 THEN pixels' ELSE first_pixels
    /\ decodes' = decodes + 1
    /\ gpu_at' = "mapped"
    /\ UNCHANGED <<cpu_vars, tile, arranged, display>>

TileSet ==
    /\ gpu_at = "mapped"
    /\ \E position \in PositionSamples :
          LET w == set_tile_on_display(display, pixels, position)
          IN  /\ display' = w.display
              /\ gpu_at' = IF w.fault = "none" THEN "tile" ELSE "panicked"
    /\ UNCHANGED <<cpu_vars, tile, arranged, pixels, first_pixels, decodes>>

BoundedTileSet == decodes < MaxDecodes /\ TileSet

TileNext == MainOk \/ BoundedExec \/ IdleIterations \/ TileArrange \/ TileMap \/ BoundedTileSet

TileSpec == TileInit /\ [][TileNext]_vars

-----------------------------------------------------------------------------
(* What the claims speak of *)

SupportedOpcodes ==
    {0, 3, 11, 12, 14, 17, 32, 33, 49, 50, 62, 71, 102, 115, 119, 175, 203, 204, 206,
     224, 226, 229}

\* a 0xCB sub-opcode outside the table: top bits 10 or 11, or family 0 with
\* middle bits 100..111
UnsupportedSub(sub) ==
    \/ sub \div 64 \in {2, 3}
    \/ sub \div 64 = 0 /\ (sub \div 8) % 8 \in 4..7

\* the opcode at PC of registers r in memory m is outside the supported table
UnsupportedAt(r, m) ==
    \/ Rd(m, r.pc) \notin SupportedOpcodes
    \/ Rd(m, r.pc) = 203 /\ UnsupportedSub(Rd(m, U16(r.pc + 1)))

DecodePanics == {"unimplemented", "unknown_cb0", "unknown_cb1"}

\* the run loop is about to call cycle
AboutToExecute == at = "run" /\ cycles < FREQUENCY /\ next_cycle = cycles

\* cycle has returned at least once and the last call returned `instruction`
Completed(name) == at = "run" /\ executed > 0 /\ instruction.name = name

A(r) == get_high_byte(r.af)

F(r) == get_low_byte(r.af)

\* the operand bytes of the instruction last fetched
Imm1 == Rd(before.memory, U16(before.registers.pc + 1))

Imm2 == Rd(before.memory, U16(before.registers.pc + 2))

\* C1: a step that fetches an opcode outside the supported table ends the
\* process with a panic of decode: no Instruction is returned, registers and
\* memory are as they were, draw is not called and nothing is counted as
\* executed.  (With overflow checks, 0xCB at PC = 0xFFFF panics on PC + 1
\* before the sub-opcode is read.)
C1_UnsupportedIsFatal ==
    [][(AboutToExecute /\ UnsupportedAt(registers, memory)) =>
         /\ at' = "panicked"
         /\ \/ fault' \in DecodePanics
            \/ fault' = "overflow" /\ overflow_checks /\ registers.pc = 65535
                 /\ Rd(memory, registers.pc) = 203
         /\ registers' = registers
         /\ memory' = memory
         /\ instruction' = instruction
         /\ draws' = draws
         /\ executed' = executed
         /\ next_cycle' = next_cycle]_vars

C1_Witness ==
    /\ at = "panicked"
    /\ fault = "unknown_cb1"
    /\ opcode = 203
    /\ Imm1 = 191
    /\ executed = 2
    /\ draws = 2
    /\ registers = before.registers
    /\ memory = before.memory
    /\ registers.af # 0

\* C2: executing a supported opcode never panics
C2_SupportedNeverFaults ==
    (at = "panicked" /\ fault # "rom_unreadable") => UnsupportedAt(before.registers, before.memory)

\* C3: in every pass of the outer loop of run at least one instruction is
\* executed
C3_EveryPassExecutes ==
    (at = "run" /\ cycles >= FREQUENCY) => pass_executed >= 1

\* C4: the bottom four bits of F are zero once the CPU is constructed
C4_LowNibbleZero ==
    at \in {"run", "panicked"} => BitAnd(registers.af, 15) = 0

C4_Witness ==
    /\ Completed("ADC_A_n8")
    /\ F(before.registers) = 0
    /\ F(registers) = 176

\* C5: immediately after construction PC is 0x0104 and the other registers
\* are zero
C5_ConstructedState ==
    (at = "run" /\ executed = 0) =>
        /\ registers.pc = 260
        /\ registers.af = 0
        /\ registers.bc = 0
        /\ registers.de = 0
        /\ registers.hl = 0
        /\ registers.sp = 0

\* C6: after ADC A,n8 Carry is 1 exactly when A + n8 + incoming Carry exceeds
\* 0xFF
C6_AdcCarry ==
    Completed("ADC_A_n8") =>
        ((get_flag(registers, FlagC) = 1) <=>
            (A(before.registers) + Imm1 + get_flag(before.registers, FlagC) > 255))

\* C7: after ADC A,n8 Zero is 1 exactly when the result is 0 and Half-Carry is
\* 1 exactly when the low nibbles plus the incoming Carry exceed 0xF
C7_AdcZeroHalf ==
    Completed("ADC_A_n8") =>
        /\ (get_flag(registers, FlagZ) = 1) <=> (A(registers) = 0)
        /\ (get_flag(registers, FlagH) = 1) <=>
              ((A(before.registers) % 16) + (Imm1 % 16)
                  + get_flag(before.registers, FlagC) > 15)

\* C8: ADC A,n8 at PC <= 0xFFFD sets A to (A + mem[PC+1] + Carry) mod 256,
\* clears Subtract, leaves BC, DE, HL, SP and memory unchanged and adds 2 to
\* PC; A = 0x01, n8 = 0x05, flags clear gives A = 0x06, flags clear
C8_AdcResult ==
    (Completed("ADC_A_n8") /\ before.registers.pc <= 65533) =>
        /\ A(registers) = (A(before.registers) + Imm1
                              + get_flag(before.registers, FlagC)) % 256
        /\ get_flag(registers, FlagN) = 0
        /\ registers.bc = before.registers.bc
        /\ registers.de = before.registers.de
        /\ registers.hl = before.registers.hl
        /\ registers.sp = before.registers.sp
        /\ memory = before.memory
        /\ registers.pc = before.registers.pc + 2
        /\ (before.registers.af = 256 /\ Imm1 = 5) => registers.af = 1536

C8_Witness ==
    /\ Completed("ADC_A_n8")
    /\ get_flag(before.registers, FlagC) = 1
    /\ A(before.registers) = 255
    /\ Imm1 = 5
    /\ A(registers) = 5
    /\ registers.pc = before.registers.pc + 2

\* C9: JR NZ,e8 with Zero clear sets PC to (PC + 2 + d) mod 65536, d the byte
\* at PC + 1 read as signed, and returns the taken variant (12 cycles); with
\* Zero set it adds 2 to PC and returns the not-taken variant (8 cycles).
\* Nothing else changes.
C9_JrNz ==
    Completed("JR_NZ_e8") =>
        /\ IF get_flag(before.registers, FlagZ) = 0
           THEN /\ registers.pc = (before.registers.pc + 2 + AsI8(Imm1)) % 65536
                /\ instruction.taken
                /\ Instruction_cycles(instruction) = 12
           ELSE /\ registers.pc = before.registers.pc + 2
                /\ ~instruction.taken
                /\ Instruction_cycles(instruction) = 8
        /\ registers = [before.registers EXCEPT !.pc = registers.pc]
        /\ memory = before.memory

C9_Witness ==
    /\ Completed("JR_NZ_e8")
    /\ before.registers.pc = 2
    /\ Imm1 = 255
    /\ get_flag(before.registers, FlagZ) = 0
    /\ registers.pc = 3
    /\ instruction.taken

\* C10: CALL Z,a16 with Zero set sets PC to (mem[PC+2] << 8) | mem[PC+1] and
\* returns the taken variant (24 cycles); with Zero clear it adds 3 to PC
\* (mod 65536) and returns the not-taken variant (12 cycles).  SP, the other
\* registers, the flags and memory are unchanged.
C10_CallZ ==
    Completed("Call_Z_a16") =>
        /\ IF get_flag(before.registers, FlagZ) = 1
           THEN /\ registers.pc = Imm2 * 256 + Imm1
                /\ instruction.taken
                /\ Instruction_cycles(instruction) = 24
           ELSE /\ registers.pc = (before.registers.pc + 3) % 65536
                /\ ~instruction.taken
                /\ Instruction_cycles(instruction) = 12
        /\ registers = [before.registers EXCEPT !.pc = registers.pc]
        /\ memory = before.memory

C10_Witness ==
    /\ Completed("Call_Z_a16")
    /\ get_flag(before.registers, FlagZ) = 1
    /\ before.registers.pc = 1
    /\ registers.pc = 43981
    /\ registers.sp = before.registers.sp
    /\ memory = before.memory
    /\ instruction.taken

\* C11: XOR A,A, whatever A and the flags were, leaves A = 0, Zero = 1,
\* Subtract = Half-Carry = Carry = 0 (F = 0x80), adds 1 to PC (mod 65536) and
\* changes no other register and no memory byte
C11_XorAA ==
    Completed("XOR_A_A") =>
        /\ A(registers) = 0
        /\ get_flag(registers, FlagZ) = 1
        /\ get_flag(registers, FlagN) = 0
        /\ get_flag(registers, FlagH) = 0
        /\ get_flag(registers, FlagC) = 0
        /\ registers.pc = (before.registers.pc + 1) % 65536
        /\ registers = [before.registers EXCEPT !.af = 128, !.pc = registers.pc]
        /\ memory = before.memory

C11_Witness ==
    /\ Completed("XOR_A_A")
    /\ A(before.registers) = 255
    /\ get_flag(before.registers, FlagC) = 1
    /\ get_flag(before.registers, FlagZ) = 0
    /\ registers.af = 128
    /\ registers.pc = before.registers.pc + 1

\* the step completes the instruction whose opcode is op, right after the
\* instruction named prev
Follows(prev, op) ==
    /\ Completed(prev)
    /\ AboutToExecute
    /\ Rd(memory, registers.pc) = op
    /\ executed' = executed + 1

\* C12: INC BC adds 1 to BC and DEC BC subtracts 1, modulo 65536; each adds 1
\* to PC (mod 65536) and changes nothing else, no flag in particular.  DEC BC
\* right after INC BC, and INC BC right after DEC BC, leave BC as it was
\* before the pair.
C12_IncDecBC ==
    /\ [](Completed("INC_BC") =>
            /\ registers.bc = (before.registers.bc + 1) % 65536
            /\ registers = [before.registers EXCEPT
                               !.bc = registers.bc,
                               !.pc = (before.registers.pc + 1) % 65536]
            /\ memory = before.memory)
    /\ [](Completed("DEC_BC") =>
            /\ registers.bc = (before.registers.bc + 65535) % 65536
            /\ registers = [before.registers EXCEPT
                               !.bc = registers.bc,
                               !.pc = (before.registers.pc + 1) % 65536]
            /\ memory = before.memory)
    /\ [][(Follows("INC_BC", 11) \/ Follows("DEC_BC", 3)) =>
             /\ registers'.bc = before.registers.bc
             /\ registers'.af = before.registers.af]_vars

\* DEC BC, INC BC, DEC BC from BC = 0: 0xFFFF, 0x0000, 0xFFFF
C12_Witness ==
    /\ Completed("DEC_BC")
    /\ Rd(rom.bytes, 0) = 11
    /\ Rd(rom.bytes, 1) = 3
    /\ Rd(rom.bytes, 2) = 11
    /\ executed = 3
    /\ before.registers.bc = 0
    /\ registers.bc = 65535
    /\ registers.pc = 3

\* C13: gpu.draw is called once for each instruction cycle completes, in the
\* step that applies the instruction's effect and so before the next fetch; a
\* fetch that panics draws nothing; the number of draws equals the number of
\* completed instructions throughout
C13_DrawPerInstruction ==
    /\ [](draws = executed)
    /\ [][IF executed' # executed
          THEN /\ executed' = executed + 1
               /\ draws' = draws + 1
               /\ AboutToExecute
               /\ registers' = decode(registers, memory, Rd(memory, registers.pc)).registers
               /\ memory' = decode(registers, memory, Rd(memory, registers.pc)).memory
          ELSE draws' = draws]_vars

\* three instructions were drawn and the fourth panicked without a draw
C13_Witness ==
    /\ at = "panicked"
    /\ fault = "unimplemented"
    /\ executed = 3
    /\ draws = 3

\* C14: when cycles has reached FREQUENCY the next step is the end of the
\* pass: with less than a second elapsed it sleeps exactly one second minus
\* the elapsed time, otherwise it does not sleep, and it sets cycles to 0.
\* cycles never exceeds FREQUENCY and no other step lowers it.
C14_EndOfBatch ==
    /\ [](cycles <= FREQUENCY)
    /\ [][/\ (cycles = FREQUENCY /\ at = "run") =>
                /\ cycles' = 0
                /\ passes' = passes + 1
                /\ slept' = IF elapsed' < ONE_SEC THEN ONE_SEC - elapsed' ELSE 0
          /\ cycles' < cycles => (cycles = FREQUENCY /\ cycles' = 0)
          /\ cycles < FREQUENCY => (slept' = slept /\ passes' = passes)]_vars

\* the second pass ended 400 ms into its second and slept the other 600 ms
C14_Witness ==
    /\ at = "run"
    /\ passes = 2
    /\ cycles = 0
    /\ elapsed = 400
    /\ slept = 600

\* C15: when the ROM file cannot be read, load_rom returns its error with
\* memory and rom_size as Memory::new left them, main panics, run is never
\* entered, no instruction is executed and draw is never called
C15_UnreadableRom ==
    ~rom.readable =>
        /\ at \in {"main", "panicked"}
        /\ at = "panicked" => fault = "rom_unreadable"
        /\ memory = Memory_new
        /\ rom_size = 0
        /\ registers = Unconstructed
        /\ cycles = 0
        /\ executed = 0
        /\ draws = 0
        /\ instruction = NoInstruction

C15_Witness ==
    /\ ~rom.readable
    /\ at = "panicked"
    /\ fault = "rom_unreadable"
    /\ memory = Memory_new
    /\ executed = 0
    /\ draws = 0

\* the addresses at which the memory or the file holds a non-zero byte; every
\* other address holds 0 in both
Occupied == DOMAIN memory \cup DOMAIN rom.bytes

\* load_rom has returned Ok and no instruction has been fetched yet
Loaded == at = "run" /\ executed = 0 /\ rom.readable

\* C16: after load_rom of a file of n <= 65,536 bytes, memory[i] is the
\* file's byte i for every i < n and is what it was (0, from Memory::new) for
\* every i >= n, and rom_size is n; the bytes are copied as they are
C16_LoadRom ==
    /\ Loaded =>
          /\ rom.len <= MEMORY_SIZE
          /\ \A i \in Occupied :
                Rd(memory, i) = IF i < rom.len THEN Rd(rom.bytes, i) ELSE Rd(Memory_new, i)
          /\ \A i \in DOMAIN memory : i < MEMORY_SIZE
    /\ (at = "run" /\ rom.readable) => rom_size = rom.len

\* a file that fills the address space, with code at its start and at its end
C16_Witness ==
    /\ Loaded
    /\ rom.len = MEMORY_SIZE
    /\ rom_size = MEMORY_SIZE
    /\ Rd(memory, 0) = 32
    /\ Rd(memory, 65535) = 206
    /\ Rd(rom.bytes, 65535) = 206

\* the k-th 2-bit group of byte b, most significant first
Group(b, k) == (b \div (4 ^ (3 - k))) % 4

\* the palette: the R, G, B bytes of colour index idx
PaletteRgb(idx) ==
    CASE idx = 0 -> <<224, 248, 208>>
      [] idx = 1 -> <<137, 192, 111>>
      [] idx = 2 -> <<53, 104, 86>>
      [] idx = 3 -> <<8, 24, 32>>

\* the R, G, B bytes of output pixel p
PixelAt(p) == <<pixels[3 * p], pixels[3 * p + 1], pixels[3 * p + 2]>>

\* C17: the output of map_tile_pixels holds 64 pixels of 3 bytes: pixel
\* 4i + k, the k-th 2-bit group of byte i, is at bytes 3p..3p + 2 and has the
\* palette colour of that group; every pixel is one of the four colours
C17_PixelLayout ==
    gpu_at = "mapped" =>
        /\ DOMAIN pixels = 0..191
        /\ \A i \in 0..15, k \in 0..3 :
              PixelAt(4 * i + k) = PaletteRgb(Group(arranged[i], k))
        /\ \A p \in 0..63 : \E idx \in 0..3 : PixelAt(p) = PaletteRgb(idx)

Bit(b, n) == (b \div (2 ^ n)) % 2

\* idx has its high-order bit from byte x and its low-order bit from byte y
FromBoth(idx, x, y) == \E hi \in 0..7, lo \in 0..7 : idx = 2 * Bit(x, hi) + Bit(y, lo)

\* C18: for every pair of input bytes, the colour index of each pixel decoded
\* from the pair (the 2-bit groups of the pair's two arranged bytes) has its
\* high-order bit from one byte of the pair and its low-order bit from the
\* other
C18_BitsFromBothBytes ==
    gpu_at = "mapped" =>
        \A i \in 0..7, n \in 0..1, k \in 0..3 :
            LET idx == Group(arranged[2 * i + n], k)
                lhs == tile[2 * i]
                rhs == tile[2 * i + 1]
            IN  FromBoth(idx, lhs, rhs) \/ FromBoth(idx, rhs, lhs)

C20_LdhTarget ==
    /\ Completed("LDH_a8_A") =>
          memory = Wr(before.memory, 65280 + Imm1, A(before.registers))
    /\ Completed("LDH_C_A") =>
          memory = Wr(before.memory, 65280 + get_low_byte(before.registers.bc),
                      A(before.registers))

\* C21: LD HL,n16, LD SP,n16 and LD DE,n16 at PC <= 0xFFFC add exactly 3 to PC
C21_Load16AdvancesThree ==
    ((Completed("LD_HL_n16") \/ Completed("LD_SP_n16") \/ Completed("LD_DE_n16"))
        /\ before.registers.pc <= 65532) =>
        registers.pc = before.registers.pc + 3

\* C22: LD C,n8, LD A,n8, ADC A,n8, LDH [a8],A and every supported 0xCB form
\* at PC <= 0xFFFD add exactly 2 to PC
C22_OneOperandAdvancesTwo ==
    ((Completed("LD_C_n8") \/ Completed("LD_A_n8") \/ Completed("ADC_A_n8")
         \/ Completed("LDH_a8_A") \/ Completed("PREFIX"))
        /\ before.registers.pc <= 65533) =>
        registers.pc = before.registers.pc + 2

\* the sub-opcode of the 0xCB instruction last fetched, and its three fields
CbFamily == Imm1 \div 64

CbMiddle == (Imm1 \div 8) % 8

CbSel == Imm1 % 8

\* the register half or memory byte a selector names, in registers r, memory m
Selected(r, m, sel) ==
    CASE sel = 0 -> r.bc \div 256
      [] sel = 1 -> r.bc % 256
      [] sel = 2 -> r.de \div 256
      [] sel = 3 -> r.de % 256
      [] sel = 4 -> r.hl \div 256
      [] sel = 5 -> r.hl % 256
      [] sel = 6 -> Rd(m, r.hl)
      [] sel = 7 -> r.af \div 256

OldOperand == Selected(before.registers, before.memory, CbSel)

\* the last instruction completed is the 0xCB bit test
BitTestDone == Completed("PREFIX") /\ CbFamily = 1

\* the last instruction completed is the 0xCB family-0 operation with middle
\* bits op
Family0Done(op) == Completed("PREFIX") /\ CbFamily = 0 /\ CbMiddle = op

\* C23: the bit test sets Zero to 1 exactly when the tested bit of the
\* selected operand is 0
C23_BitTestZero ==
    BitTestDone =>
        ((get_flag(registers, FlagZ) = 1) <=> ((OldOperand \div (2 ^ CbMiddle)) % 2 = 0))

\* C24: the bit test changes only F and PC: Subtract is 0, Half-Carry is 1,
\* Carry is what it was; the tested operand, A, BC, DE, HL, SP and memory are
\* unchanged; PC is advanced by 2 (mod 65536)
C24_BitTestFrame ==
    BitTestDone =>
        /\ get_flag(registers, FlagN) = 0
        /\ get_flag(registers, FlagH) = 1
        /\ get_flag(registers, FlagC) = get_flag(before.registers, FlagC)
        /\ F(registers) % 16 = F(before.registers) % 16
        /\ Selected(registers, memory, CbSel) = OldOperand
        /\ A(registers) = A(before.registers)
        /\ registers = [before.registers EXCEPT
                           !.af = registers.af,
                           !.pc = (before.registers.pc + 2) % 65536]
        /\ memory = before.memory

\* BIT 0,A with A = 0xFF and Carry set by an earlier rotate
C24_Witness ==
    /\ BitTestDone
    /\ CbSel = 7
    /\ A(before.registers) = 255
    /\ get_flag(before.registers, FlagC) = 1
    /\ get_flag(before.registers, FlagH) = 0
    /\ get_flag(registers, FlagC) = 1
    /\ get_flag(registers, FlagH) = 1
    /\ A(registers) = 255

C26_RrcCircular ==
    Family0Done(1) =>
        /\ get_flag(registers, FlagC) = OldOperand % 2
        /\ Selected(registers, memory, CbSel) = (OldOperand \div 2) + 128 * (OldOperand % 2)

\* registers r and memory m with v written to what selector sel names
Written(r, m, sel, v) ==
    CASE sel = 0 -> [registers |-> [r EXCEPT !.bc = v * 256 + (r.bc % 256)], memory |-> m]
      [] sel = 1 -> [registers |-> [r EXCEPT !.bc = (r.bc \div 256) * 256 + v], memory |-> m]
      [] sel = 2 -> [registers |-> [r EXCEPT !.de = v * 256 + (r.de % 256)], memory |-> m]
      [] sel = 3 -> [registers |-> [r EXCEPT !.de = (r.de \div 256) * 256 + v], memory |-> m]
      [] sel = 4 -> [registers |-> [r EXCEPT !.hl = v * 256 + (r.hl % 256)], memory |-> m]
      [] sel = 5 -> [registers |-> [r EXCEPT !.hl = (r.hl \div 256) * 256 + v], memory |-> m]
      [] sel = 6 -> [registers |-> r, memory |-> Wr(m, r.hl, v)]
      [] sel = 7 -> [registers |-> [r EXCEPT !.af = v * 256 + (r.af % 256)], memory |-> m]

\* registers r without F and PC
WithoutFlagsAndPC(r) == [r EXCEPT !.af = (r.af \div 256) * 256, !.pc = 0]

\* the value a family-0 operation is to write for operand x: rotate left
\* circular, shift left, shift right
Family0Result(op, x) ==
    CASE op = 0 -> ((x * 2) % 256) + (x \div 128)
      [] op = 2 -> (x * 2) % 256
      [] op = 3 -> x \div 2

\* the bit a family-0 operation shifts out of operand x
ShiftedOut(op, x) == IF op \in {0, 2} THEN x \div 128 ELSE x % 2

\* C27: rotate-left-circular, shift-left and shift-right write their result
\* to the selected operand and to no other register half or memory byte; for
\* all four family-0 operations Carry is the bit shifted out and Zero is 1
\* exactly when the written result is 0
C27_Family0Results ==
    /\ \A op \in {0, 2, 3} :
          Family0Done(op) =>
              LET w == Written(before.registers, before.memory, CbSel,
                               Family0Result(op, OldOperand))
              IN  /\ WithoutFlagsAndPC(registers) = WithoutFlagsAndPC(w.registers)
                  /\ memory = w.memory
    /\ \A op \in 0..3 :
          Family0Done(op) =>
              /\ get_flag(registers, FlagC) = ShiftedOut(op, OldOperand)
              /\ (get_flag(registers, FlagZ) = 1)
                    <=> (Selected(registers, memory, CbSel) = 0)

\* RLC D with D = 0x47: D becomes 0x8E, E stays 0x0C, Carry and Zero are 0
C27_Witness ==
    /\ Family0Done(0)
    /\ CbSel = 2
    /\ before.registers.de = 18188
    /\ registers.de = 36364
    /\ get_flag(registers, FlagC) = 0
    /\ get_flag(registers, FlagZ) = 0

\* C28: INC C sets C to (C + 1) mod 256 and leaves B as it was, sets Zero when
\* the result is 0, clears Subtract, makes Half-Carry 1 exactly when the low
\* nibble of the old C was 0xF, leaves Carry as it was and adds 1 to PC
\* (mod 65536); nothing else changes
C28_IncC ==
    Completed("INC_C") =>
        LET old == before.registers.bc % 256
            new == registers.bc % 256
        IN  /\ new = (old + 1) % 256
            /\ registers.bc \div 256 = before.registers.bc \div 256
            /\ new = 0 => get_flag(registers, FlagZ) = 1
            /\ get_flag(registers, FlagN) = 0
            /\ (get_flag(registers, FlagH) = 1) <=> (old % 16 = 15)
            /\ get_flag(registers, FlagC) = get_flag(before.registers, FlagC)
            /\ registers.pc = (before.registers.pc + 1) % 65536
            /\ WithoutFlagsAndPC(registers)
                  = WithoutFlagsAndPC([before.registers EXCEPT !.bc = registers.bc])
            /\ memory = before.memory

\* LD A,0xFF; LD B,A; INC C ... with C = 0xFF: B stays, C wraps, Zero and
\* Half-Carry are set
C28_Witness ==
    /\ Completed("INC_C")
    /\ before.registers.bc % 256 = 255
    /\ registers.bc = 0
    /\ get_flag(before.registers, FlagZ) = 0
    /\ get_flag(registers, FlagZ) = 1
    /\ get_flag(registers, FlagH) = 1

\* C29: an immediate load writes only its destination: LD C,n8 sets C to
\* mem[PC+1] and keeps B; LD A,n8 sets A to mem[PC+1] and keeps F; LD HL,n16,
\* LD SP,n16 and LD DE,n16 set their register to (mem[PC+2] << 8) | mem[PC+1];
\* all other registers (PC apart), the flags and memory are unchanged
C29_ImmediateLoads ==
    LET r == before.registers
        kept(dest) == /\ registers = [dest EXCEPT !.pc = registers.pc]
                      /\ memory = before.memory
    IN  /\ Completed("LD_C_n8") => kept([r EXCEPT !.bc = (r.bc \div 256) * 256 + Imm1])
        /\ Completed("LD_A_n8") => kept([r EXCEPT !.af = Imm1 * 256 + (r.af % 256)])
        /\ Completed("LD_HL_n16") => kept([r EXCEPT !.hl = Imm2 * 256 + Imm1])
        /\ Completed("LD_SP_n16") => kept([r EXCEPT !.sp = Imm2 * 256 + Imm1])
        /\ Completed("LD_DE_n16") => kept([r EXCEPT !.de = Imm2 * 256 + Imm1])

\* LD C,0x05 with B = 0xFF
C29_Witness ==
    /\ Completed("LD_C_n8")
    /\ before.registers.bc = 65280
    /\ Imm1 = 5
    /\ registers.bc = 65285
    /\ registers.af = before.registers.af
    /\ registers.af # 0

\* C30: LD B,A, LD [HL],E, LD [HL],A and LD H,[HL] add 1 to PC (mod 65536)
\* and change no flag: LD B,A sets B to A and keeps C; the two stores write E
\* or A to memory[HL] and change no register; LD H,[HL] sets H to the byte at
\* the address HL held and keeps L
C30_OneByteLoadsStores ==
    LET r == before.registers
        m == before.memory
        next == (r.pc + 1) % 65536
    IN  /\ Completed("LD_B_A") =>
              /\ registers = [r EXCEPT !.bc = (r.af \div 256) * 256 + (r.bc % 256),
                                       !.pc = next]
              /\ memory = m
        /\ Completed("LD_HL_E") =>
              /\ registers = [r EXCEPT !.pc = next]
              /\ memory = Wr(m, r.hl, r.de % 256)
        /\ Completed("LD_HL_A") =>
              /\ registers = [r EXCEPT !.pc = next]
              /\ memory = Wr(m, r.hl, r.af \div 256)
        /\ Completed("LD_H_HL") =>
              /\ registers = [r EXCEPT !.hl = Rd(m, r.hl) * 256 + (r.hl % 256),
                                       !.pc = next]
              /\ memory = m

\* LD HL,0xABCD; LD A,0x80; LD [HL],A
C30_Witness ==
    /\ Completed("LD_HL_A")
    /\ before.registers.hl = 43981
    /\ A(before.registers) = 128
    /\ Rd(before.memory, 43981) = 0
    /\ Rd(memory, 43981) = 128
    /\ registers.pc = before.registers.pc + 1

\* C31: LD [HL-],A with HL >= 1 writes A to the address HL held, then sets HL
\* to that value minus 1 and adds 1 to PC (mod 65536); no flag, no other
\* register and no other memory byte changes
C31_StoreDecrement ==
    Completed("LD_HL_DEC_A") /\ before.registers.hl >= 1 =>
        LET r == before.registers
        IN  /\ memory = Wr(before.memory, r.hl, A(r))
            /\ registers = [r EXCEPT !.hl = r.hl - 1, !.pc = (r.pc + 1) % 65536]

\* LD HL,0xABCD; LD A,0x80; LD [HL-],A
C31_Witness ==
    /\ Completed("LD_HL_DEC_A")
    /\ before.registers.hl = 43981
    /\ A(before.registers) = 128
    /\ Rd(before.memory, 43981) = 0
    /\ Rd(memory, 43981) = 128
    /\ Rd(memory, 43980) = 0
    /\ registers.hl = 43980

\* C32: PUSH HL with SP >= 2 writes HL's low byte to memory[SP-1] and HL's
\* high byte to memory[SP-2], then sets SP to SP - 2 and adds 1 to PC
\* (mod 65536); HL, the other registers, the flags and every other memory
\* byte are unchanged
C32_PushHL ==
    Completed("PUSH_HL") /\ before.registers.sp >= 2 =>
        LET r == before.registers
        IN  /\ memory = Wr(Wr(before.memory, r.sp - 1, r.hl % 256), r.sp - 2, r.hl \div 256)
            /\ registers = [r EXCEPT !.sp = r.sp - 2, !.pc = (r.pc + 1) % 65536]

\* LD HL,0xABCD; LD SP,0xFFFF; PUSH HL
C32_Witness ==
    /\ Completed("PUSH_HL")
    /\ before.registers.hl = 43981
    /\ before.registers.sp = 65535
    /\ Rd(memory, 65534) = 205
    /\ Rd(memory, 65533) = 171
    /\ registers.sp = 65533
    /\ registers.hl = 43981

\* C33: after INC C the Zero flag is 1 exactly when the new value of C is 0; a
\* Zero flag an earlier instruction left set is cleared when the result is not 0
C33_IncCZero ==
    Completed("INC_C") =>
        ((get_flag(registers, FlagZ) = 1) <=> (registers.bc % 256 = 0))

\* every Instruction value decode can return
Instructions ==
    {Instr(n, t) :
        n \in {"ADC_A_n8", "LD_H_HL", "Call_Z_a16", "DEC_BC", "INC_BC", "LD_HL_E", "NOP",
               "LD_SP_n16", "XOR_A_A", "LD_HL_n16", "LD_HL_DEC_A", "PREFIX", "JR_NZ_e8",
               "LD_C_n8", "LD_A_n8", "LDH_C_A", "INC_C", "LD_HL_A", "LDH_a8_A", "LD_B_A",
               "PUSH_HL", "LD_DE_n16"},
        t \in BOOLEAN}

\* this step calls cycle
Starts == at = "run" /\ (executed' = executed + 1 \/ at' = "panicked")

\* C34: in the run loop the cycle counter stays in 0..4,194,304, every
\* instruction's cycle cost is a positive multiple of 4, and within one pass
\* an instruction is started only when the counter equals the start count of
\* the previous instruction plus that instruction's cost (the branch-taken
\* cost when the branch was taken)
C34_Scheduling ==
    /\ [](cycles \in 0..FREQUENCY)
    /\ [](\A i \in Instructions :
             Instruction_cycles(i) > 0 /\ Instruction_cycles(i) % 4 = 0)
    /\ [][Starts /\ pass_executed > 0
             => cycles = started + Instruction_cycles(instruction)]_vars

\* XOR A,A at 0, CALL Z taken at 4 and again at 28, and the counter has
\* reached 52 for the next one
C34_Witness ==
    /\ at = "run"
    /\ pass_executed = 3
    /\ instruction = Instr("Call_Z_a16", TRUE)
    /\ started = 28
    /\ cycles = 52
    /\ next_cycle = 52

\* cycle has fetched an opcode: `opcode` and `before` are those of that fetch
Fetched == executed > 0 \/ (at = "panicked" /\ fault # "rom_unreadable")

\* the addresses whose byte differs from the one held at the last fetch
Changed ==
    {a \in DOMAIN memory \cup DOMAIN before.memory : Rd(memory, a) # Rd(before.memory, a)}

\* C35: memory is modified only by the store instructions: LD [HL],E,
\* LD [HL],A, LD [HL-],A, LDH [a8],A and LDH [C],A change at most one byte,
\* PUSH HL at most two, a prefixed family-0 operation with selector [HL] at
\* most the byte at HL, and every other instruction none
C35_StoresOnly ==
    Fetched =>
        CASE opcode \in {115, 119, 50, 224, 226} -> Cardinality(Changed) <= 1
          [] opcode = 229 -> Cardinality(Changed) <= 2
          [] opcode = 203 /\ CbFamily = 0 /\ CbSel = 6 -> Changed \subseteq {before.registers.hl}
          [] OTHER -> Changed = {}

\* LD HL,0x0001; rotate-left-circular [HL]: the byte at 1 goes from 0x01 to 0x02
C35_Witness ==
    /\ Completed("PREFIX")
    /\ Family0Done(0)
    /\ CbSel = 6
    /\ before.registers.hl = 1
    /\ Rd(before.memory, 1) = 1
    /\ Rd(memory, 1) = 2
    /\ Changed = {1}

====
